---- MODULE Spec2Model ----
(***************************************************************************)
(* Model of rag_system/retriever.py: the YAML-backed RAGRetriever.         *)
(*                                                                         *)
(* Text is a sequence of one-character strings.  A Python value is a       *)
(* tagged record: [type |-> "NoneType"], [type |-> "str", s |-> text],     *)
(* [type |-> "int", n |-> i], [type |-> "list", items |-> <<value...>>],   *)
(* [type |-> "dict", entries |-> <<[k |-> value, v |-> value]...>>]        *)
(* (a dict keeps its insertion order and has pairwise distinct keys).      *)
(***************************************************************************)
EXTENDS Integers, Sequences, FiniteSets, TLC

VARIABLES
    source,      \* the state of the YAML file at self.yaml_path
    documents,   \* self.documents
    config,      \* self.config (RAG_TOP_K)
    lastOp,      \* name of the last operation that completed
    before,      \* self.documents when the last operation started
    retFlag,     \* the bool returned by refresh_vector_store / add_new_document
    argQuery,    \* query argument of the last retrieve_relevant_content call
    argTopK,     \* top_k argument of that call: {} when omitted (None), {k} otherwise
    results,     \* the list that call returned
    resultPos,   \* history: for each returned item, the index in self.documents it was built from
    gaps,        \* the dict returned by the last identify_content_gaps call
    argQueries,  \* recent_queries argument of that call
    initial,     \* history: self.documents as the constructor left it
    srcChanged   \* history: the YAML file was rewritten after the constructor ran

vars == <<source, documents, config, lastOp, before, retFlag, argQuery, argTopK,
          results, resultPos, gaps, argQueries, initial, srcChanged>>

-----------------------------------------------------------------------------
(* Bounds *)

MaxNodes == 4        \* nodes of a YAML tree in SpecFlatten
MaxEntries == 2      \* top-level entries of the YAML mapping in Spec and SpecQuery
MaxDocs == 3         \* add_new_document is not called on a longer document list
MaxTopK == 3         \* largest top_k and RAG_TOP_K drawn
MaxContentLen == 4   \* characters of a section's content in SpecScore
MaxWords == 2        \* words of a query in SpecScore
MaxQueries == 2      \* queries passed to identify_content_gaps
MaxScoreDocs == 2    \* documents in SpecScore

-----------------------------------------------------------------------------
(* Python values *)

PyNone == [type |-> "NoneType"]
PyStr(t) == [type |-> "str", s |-> t]
PyInt(i) == [type |-> "int", n |-> i]
PyList(xs) == [type |-> "list", items |-> xs]
PyDict(es) == [type |-> "dict", entries |-> es]

RECURSIVE Concat(_)
Concat(ss) == IF ss = <<>> THEN <<>> ELSE Head(ss) \o Concat(Tail(ss))

RECURSIVE Join(_, _)
Join(sep, parts) ==
    IF parts = <<>> THEN <<>>
    ELSE IF Len(parts) = 1 THEN parts[1]
    ELSE parts[1] \o sep \o Join(sep, Tail(parts))

Digit(d) == <<"0", "1", "2", "3", "4", "5", "6", "7", "8", "9">>[d + 1]

RECURSIVE Decimal(_)
Decimal(i) == IF i < 10 THEN <<Digit(i)>> ELSE Decimal(i \div 10) \o <<Digit(i % 10)>>

\* str(x) for the scalar values yaml.safe_load produces
Str(x) ==
    CASE x.type = "str" -> x.s
      [] x.type = "NoneType" -> <<"N", "o", "n", "e">>
      [] x.type = "int" -> Decimal(x.n)

\* x or ""  (None and "" are falsy)
OrEmpty(x) == IF x.type = "str" THEN x.s ELSE <<>>

LowerChar(c) ==
    CASE c = "A" -> "a"
      [] c = "B" -> "b"
      [] c = "N" -> "n"
      [] OTHER -> c

Lower(t) == [i \in 1..Len(t) |-> LowerChar(t[i])]

\* dict.get(key, default)
DictGet(d, key, default) ==
    IF \E i \in 1..Len(d.entries) : d.entries[i].k = key
    THEN d.entries[CHOOSE i \in 1..Len(d.entries) : d.entries[i].k = key].v
    ELSE default

-----------------------------------------------------------------------------
(* _load_yaml *)

\* self.yaml_path.name
YamlName ==
    <<"h", "o", "t", "e", "l", "_", "t", "r", "a", "i", "n", "i", "n", "g",
      "_", "r", "e", "f", "e", "r", "e", "n", "c", "e", ".", "y", "a", "m", "l">>
SepPath == <<" ", "/", " ">>
SepLine == <<"\n">>
RootPath == <<<<"r", "o", "o", "t">>>>
YamlPrefix == <<"y", "a", "m", "l", "_">>
CustomPrefix == <<"c", "u", "s", "t", "o", "m", "_">>

RECURSIVE recurse(_, _)
recurse(node, path_parts) ==
    IF node.type = "dict"
    THEN Concat([i \in 1..Len(node.entries) |->
                    recurse(node.entries[i].v, Append(path_parts, Str(node.entries[i].k)))])
    ELSE IF node.type = "list"
    THEN <<[title |-> Join(SepPath, path_parts),
            content |-> Join(SepLine, [i \in 1..Len(node.items) |-> Str(node.items[i])])]>>
    ELSE <<[title |-> Join(SepPath, path_parts), content |-> Str(node)]>>

\* mutant: an empty root yields nothing
FlattenSkipsEmptyRoot(data) ==
    IF data.type = "dict"
    THEN Concat([i \in 1..Len(data.entries) |->
                    recurse(data.entries[i].v, <<Str(data.entries[i].k)>>)])
    ELSE IF data.type = "list" /\ data.items = <<>> THEN <<>>
    ELSE recurse(data, RootPath)

\* flat_docs for the parsed file content
Flatten(data) ==
    IF data.type = "dict"
    THEN Concat([i \in 1..Len(data.entries) |->
                    recurse(data.entries[i].v, <<Str(data.entries[i].k)>>)])
    ELSE recurse(data, RootPath)

YamlDoc(i, doc) ==
    [id |-> YamlPrefix \o Decimal(i),
     title |-> PyStr(doc.title),
     content |-> PyStr(doc.content),
     metadata |-> PyDict(<<[k |-> PyStr(<<"s", "o", "u", "r", "c", "e">>), v |-> PyStr(YamlName)],
                           [k |-> PyStr(<<"p", "a", "t", "h">>), v |-> PyStr(doc.title)]>>)]

\* self.documents after _load_yaml() ran with self.documents = docs and the file in state src
LoadYaml(docs, src) ==
    IF src.kind = "missing" THEN <<>>
    ELSE IF src.kind = "malformed" THEN <<>>
    ELSE LET flat_docs == Flatten(src.data)
         IN docs \o [i \in 1..Len(flat_docs) |-> YamlDoc(i - 1, flat_docs[i])]

LoadFails(src) == src.kind = "malformed"

-----------------------------------------------------------------------------
(* The YAML files drawn *)

Scalars == {PyNone, PyStr(<<"a", "a", "a">>)}

RECURSIVE SeqsOfLen(_, _)
SeqsOfLen(S, n) ==
    IF n = 0 THEN {<<>>} ELSE {Append(xs, x) : xs \in SeqsOfLen(S, n - 1), x \in S}

SeqsUpTo(S, n) == UNION {SeqsOfLen(S, m) : m \in 0..n}

\* the leaves of a tree: the scalars, the empty sequence, a sequence of scalars
Leaves == Scalars \cup {PyList(<<>>), PyList(<<PyStr(<<"b">>), PyNone>>)}

\* the i-th key of a mapping: a string key or an integer key
Key(i) == IF i % 2 = 1 THEN PyStr(<<"s", Digit(i)>>) ELSE PyInt(i)

MkDict(vs) == PyDict([i \in 1..Len(vs) |-> [k |-> Key(i), v |-> vs[i]]])

RECURSIVE TreesN(_), Forests(_)
\* the trees of exactly n nodes
TreesN(n) ==
    (IF n = 1 THEN Leaves ELSE {}) \cup {MkDict(vs) : vs \in Forests(n - 1)}
\* the sequences of trees of n nodes in all
Forests(n) ==
    IF n = 0 THEN {<<>>}
    ELSE UNION {{<<t>> \o vs : t \in TreesN(m), vs \in Forests(n - m)} : m \in 1..n}

Trees(n) == UNION {TreesN(m) : m \in 1..n}

Missing == [kind |-> "missing"]
Malformed == [kind |-> "malformed"]
Parsed(data) == [kind |-> "ok", data |-> data]

\* Spec: a mapping of up to MaxEntries sections, the file absent, the file unparsable
SectionValues == {PyStr(<<"a", "a", "a">>), PyList(<<PyNone>>)}
EngineSources ==
    {Missing, Malformed} \cup {Parsed(MkDict(vs)) : vs \in SeqsUpTo(SectionValues, MaxEntries)}
FlattenSources == {Missing, Malformed} \cup {Parsed(t) : t \in Trees(MaxNodes)}

-----------------------------------------------------------------------------
(* refresh_vector_store, add_new_document *)

NoResults == <<>>
NoGaps == [potential_gaps |-> <<>>, gap_count |-> 0, total_queries_analyzed |-> 0]

queryVars == <<argQuery, argTopK, results, resultPos, gaps, argQueries>>

\* Calls are sequential (no operation suspends): the caller has taken the value the last
\* retrieve_relevant_content / identify_content_gaps call returned before it calls again
Idle == lastOp \notin {"retrieve", "gaps"}

\* __init__: self.documents = [] and then self._load_yaml()
Constructed(srcs, topks) ==
    /\ source \in srcs
    /\ config \in [RAG_TOP_K : topks]
    /\ documents = LoadYaml(<<>>, source)
    /\ initial = documents
    /\ srcChanged = FALSE
    /\ lastOp = "init"
    /\ before = <<>>
    /\ retFlag = TRUE
    /\ argQuery = PyNone
    /\ argTopK = {}
    /\ results = NoResults
    /\ resultPos = <<>>
    /\ gaps = NoGaps
    /\ argQueries = <<>>

\* mutant: the reload without self.documents = []
RefreshedWithoutClear(docs, src) == LoadYaml(docs, src)

\* self.documents after refresh_vector_store()
RefreshedDocuments(docs, src) == LoadYaml(<<>>, src)

\* the value refresh_vector_store() returns: _load_yaml raises nothing, it catches
\* every exception itself, so the except branch of refresh_vector_store is never taken
RefreshReturn(src) == TRUE

refresh_vector_store ==
    /\ Idle
    /\ documents' = RefreshedDocuments(documents, source)
    /\ retFlag' = RefreshReturn(source)
    /\ lastOp' = "refresh"
    /\ before' = documents
    /\ UNCHANGED <<source, config, initial, srcChanged, queryVars>>

\* metadata.get raises AttributeError when metadata is None
InsertFails(content, metadata) == metadata.type # "dict"

\* mutant: the id counts the loaded sections, not the current documents
NewIdByLoaded(docs) == CustomPrefix \o Decimal(Len(initial))

NewId(docs) == CustomPrefix \o Decimal(Len(docs))

NewDocument(docs, content, metadata) ==
    [id |-> NewId(docs),
     title |-> DictGet(metadata, PyStr(<<"t", "i", "t", "l", "e">>), PyStr(NewId(docs))),
     content |-> content,
     metadata |-> metadata]

\* mutant: the new document is put first
InsertedAtFront(docs, content, metadata) ==
    IF InsertFails(content, metadata) THEN docs
    ELSE <<NewDocument(docs, content, metadata)>> \o docs

\* self.documents after add_new_document(content, metadata)
Inserted(docs, content, metadata) ==
    IF InsertFails(content, metadata) THEN docs
    ELSE Append(docs, NewDocument(docs, content, metadata))

InsertContents == {PyNone, PyStr(<<"a", "a", "a">>)}
InsertMetadata ==
    {PyNone, PyDict(<<>>), PyDict(<<[k |-> PyStr(<<"t", "i", "t", "l", "e">>), v |-> PyStr(<<"b">>)]>>)}

add_new_document(contents, metadatas) ==
    /\ Idle
    /\ Len(documents) < MaxDocs
    /\ \E content \in contents, metadata \in metadatas :
          /\ documents' = Inserted(documents, content, metadata)
          /\ retFlag' = ~InsertFails(content, metadata)
    /\ lastOp' = "insert"
    /\ before' = documents
    /\ UNCHANGED <<source, config, initial, srcChanged, queryVars>>

\* the environment: the YAML file is deleted or overwritten with text that does not parse
WriteSource ==
    /\ Idle
    /\ source.kind = "ok"
    /\ source' \in {Missing, Malformed}
    /\ srcChanged' = TRUE
    /\ lastOp' = "write"
    /\ before' = documents
    /\ UNCHANGED <<documents, config, retFlag, initial, queryVars>>

-----------------------------------------------------------------------------
(* retrieve_relevant_content *)

MinTokenLen == 2
TitleBonus == 2
GapTopK == 3

IsSpace(c) == c \in {" ", "\n", "\t"}

\* not query or not query.strip()
IsBlank(query) == query.type # "str" \/ \A i \in 1..Len(query.s) : IsSpace(query.s[i])

\* str.split(): the maximal runs of non-whitespace characters
RECURSIVE Split(_)
Split(t) ==
    IF t = <<>> THEN <<>>
    ELSE IF IsSpace(t[1]) THEN Split(Tail(t))
    ELSE LET n == CHOOSE m \in 1..Len(t) :
                     /\ \A i \in 1..m : ~IsSpace(t[i])
                     /\ m = Len(t) \/ IsSpace(t[m + 1])
         IN <<SubSeq(t, 1, n)>> \o Split(SubSeq(t, n + 1, Len(t)))

\* tokens = [t for t in q.split() if len(t) > 2]
LongEnough(t) == Len(t) > MinTokenLen
Tokens(query) == SelectSeq(Split(Lower(query.s)), LongEnough)

\* t in s
Contains(s, t) == \E i \in 1..(Len(s) - Len(t) + 1) : SubSeq(s, i, i + Len(t) - 1) = t

\* s.count(t) for a non-empty t: scan from the left, skip past each match
RECURSIVE CountFrom(_, _, _)
CountFrom(s, t, i) ==
    IF i + Len(t) - 1 > Len(s) THEN 0
    ELSE IF SubSeq(s, i, i + Len(t) - 1) = t THEN 1 + CountFrom(s, t, i + Len(t))
    ELSE CountFrom(s, t, i + 1)

Count(s, t) == CountFrom(s, t, 1)

RECURSIVE SumSeq(_)
SumSeq(ns) == IF ns = <<>> THEN 0 ELSE Head(ns) + SumSeq(Tail(ns))

ContentScore(content, tokens) ==
    SumSeq([i \in 1..Len(tokens) |->
               IF Contains(content, tokens[i]) THEN Count(content, tokens[i]) ELSE 0])

TitleScore(title, tokens) ==
    SumSeq([i \in 1..Len(tokens) |-> IF Contains(title, tokens[i]) THEN TitleBonus ELSE 0])

\* mutant: the title bonus is given once, not once per token
DocScoreTitleOnce(doc, tokens) ==
    ContentScore(Lower(OrEmpty(doc.content)), tokens)
    + (IF TitleScore(Lower(OrEmpty(doc.title)), tokens) > 0 THEN TitleBonus ELSE 0)

\* the score the loop body gives one document
DocScore(doc, tokens) ==
    ContentScore(Lower(OrEmpty(doc.content)), tokens) + TitleScore(Lower(OrEmpty(doc.title)), tokens)

\* the list scored, each item with the index of its document
RECURSIVE ScoredFrom(_, _, _)
ScoredFrom(docs, tokens, i) ==
    IF i > Len(docs) THEN <<>>
    ELSE (IF DocScore(docs[i], tokens) > 0
          THEN <<[pos |-> i, content |-> docs[i].content, metadata |-> docs[i].metadata,
                  similarity_score |-> DocScore(docs[i], tokens)]>>
          ELSE <<>>) \o ScoredFrom(docs, tokens, i + 1)

Scored(docs, tokens) == ScoredFrom(docs, tokens, 1)

\* list.sort(key=similarity_score, reverse=True): stable, equal keys keep their order
RECURSIVE InsertByScore(_, _)
InsertByScore(sorted, x) ==
    IF sorted = <<>> THEN <<x>>
    ELSE IF Head(sorted).similarity_score >= x.similarity_score
         THEN <<Head(sorted)>> \o InsertByScore(Tail(sorted), x)
         ELSE <<x>> \o sorted

\* mutant: sorted ascending and then reversed, which reverses the ties
RECURSIVE InsertBeforeTies(_, _)
InsertBeforeTies(sorted, x) ==
    IF sorted = <<>> THEN <<x>>
    ELSE IF Head(sorted).similarity_score > x.similarity_score
         THEN <<Head(sorted)>> \o InsertBeforeTies(Tail(sorted), x)
         ELSE <<x>> \o sorted

RECURSIVE SortAscendingReversed(_)
SortAscendingReversed(xs) ==
    IF xs = <<>> THEN <<>>
    ELSE InsertBeforeTies(SortAscendingReversed(SubSeq(xs, 1, Len(xs) - 1)), xs[Len(xs)])

RECURSIVE SortByScoreDesc(_)
SortByScoreDesc(xs) ==
    IF xs = <<>> THEN <<>>
    ELSE InsertByScore(SortByScoreDesc(SubSeq(xs, 1, Len(xs) - 1)), xs[Len(xs)])

\* xs[:k]
Slice(xs, k) ==
    IF k >= 0 THEN SubSeq(xs, 1, IF k < Len(xs) THEN k ELSE Len(xs))
    ELSE SubSeq(xs, 1, IF Len(xs) + k > 0 THEN Len(xs) + k ELSE 0)

\* top_k = top_k or self.config.RAG_TOP_K   (None and 0 are falsy)
EffectiveTopK(top_k, cfg) ==
    IF top_k = {} \/ top_k = {0} THEN cfg.RAG_TOP_K ELSE CHOOSE k \in top_k : TRUE

Fallback(docs, top_k) ==
    Slice([i \in 1..Len(docs) |->
              [pos |-> i, content |-> docs[i].content, metadata |-> docs[i].metadata,
               similarity_score |-> 0]], top_k)

\* the returned list, each item with the index of its document
Ranked(docs, query, top_k, cfg) ==
    IF IsBlank(query) THEN <<>>
    ELSE LET k == EffectiveTopK(top_k, cfg)
             scored == Scored(docs, Tokens(query))
         IN IF scored = <<>> THEN Fallback(docs, k)
            ELSE Slice(SortByScoreDesc(scored), k)

Item(x) == [content |-> x.content, metadata |-> x.metadata, similarity_score |-> x.similarity_score]

Retrieve(docs, query, top_k, cfg) ==
    LET r == Ranked(docs, query, top_k, cfg) IN [i \in 1..Len(r) |-> Item(r[i])]

retrieve_relevant_content(queries, topks) ==
    /\ Idle
    /\ \E query \in queries, top_k \in topks :
          /\ argQuery' = query
          /\ argTopK' = top_k
          /\ results' = Retrieve(documents, query, top_k, config)
          /\ resultPos' = LET r == Ranked(documents, query, top_k, config)
                          IN [i \in 1..Len(r) |-> r[i].pos]
    /\ lastOp' = "retrieve"
    /\ before' = documents
    /\ UNCHANGED <<source, documents, config, retFlag, gaps, argQueries, initial, srcChanged>>

-----------------------------------------------------------------------------
(* identify_content_gaps *)

\* mutant: only an empty result counts
LowResultEmptyOnly(res) == res = <<>>

\* not results or all(r.get("similarity_score", 0) == 0 for r in results)
LowResult(res) == res = <<>> \/ \A i \in 1..Len(res) : res[i].similarity_score = 0

RECURSIVE LowResultQueries(_, _, _)
LowResultQueries(docs, recent_queries, cfg) ==
    IF recent_queries = <<>> THEN <<>>
    ELSE LET q == Head(recent_queries)
             res == Retrieve(docs, q, {GapTopK}, cfg)
         IN (IF LowResult(res) THEN <<[query |-> q, result_count |-> Len(res)]>> ELSE <<>>)
            \o LowResultQueries(docs, Tail(recent_queries), cfg)

ContentGaps(docs, recent_queries, cfg) ==
    LET low_result_queries == LowResultQueries(docs, recent_queries, cfg)
    IN [potential_gaps |-> low_result_queries,
        gap_count |-> Len(low_result_queries),
        total_queries_analyzed |-> Len(recent_queries)]

identify_content_gaps(queries) ==
    /\ Idle
    /\ \E recent_queries \in SeqsUpTo(queries, MaxQueries) :
          /\ argQueries' = recent_queries
          /\ gaps' = ContentGaps(documents, recent_queries, config)
    /\ lastOp' = "gaps"
    /\ before' = documents
    /\ UNCHANGED <<source, documents, config, retFlag, argQuery, argTopK, results, resultPos,
                   initial, srcChanged>>

\* the caller takes the returned value
TakeResult ==
    /\ ~Idle
    /\ lastOp' = "idle"
    /\ before' = documents
    /\ argQuery' = PyNone
    /\ argTopK' = {}
    /\ results' = NoResults
    /\ resultPos' = <<>>
    /\ gaps' = NoGaps
    /\ argQueries' = <<>>
    /\ UNCHANGED <<source, documents, config, retFlag, initial, srcChanged>>

-----------------------------------------------------------------------------
(* Specifications *)

Init == Constructed(EngineSources, {MaxTopK})

Next ==
    \/ refresh_vector_store
    \/ add_new_document(InsertContents, InsertMetadata)
    \/ WriteSource

Spec == Init /\ [][Next]_vars

\* SpecFlatten: the constructor and refresh over every YAML tree of up to MaxNodes nodes
InitFlatten == Constructed(FlattenSources, {MaxTopK})

NextFlatten ==
    \/ refresh_vector_store
    \/ WriteSource

SpecFlatten == InitFlatten /\ [][NextFlatten]_vars

\* SpecQuery: retrieval and gap analysis over loaded and inserted documents
aaa == <<"a", "a", "a">>
QueryValues == {PyStr(<<"b">>), PyStr(aaa), PyStr(aaa \o <<" ">> \o aaa)}
QuerySources == {Parsed(MkDict(vs)) : vs \in SeqsUpTo(QueryValues, MaxEntries)}
Queries ==
    {PyNone, PyStr(<<" ", "\n">>), PyStr(aaa), PyStr(<<"a", "a">>),
     PyStr(<<"z", "z", "z">>), PyStr(<<"A", "A", "A", " ", " ", "b">>)}
GapQueries == {PyStr(<<" ">>), PyStr(aaa), PyStr(<<"z", "z", "z">>)}
TopKs == {{}} \cup {{k} : k \in 0..MaxTopK}

InitQuery == Constructed(QuerySources, {1, MaxTopK})

NextQuery ==
    \/ add_new_document({PyNone, PyStr(aaa)}, {PyDict(<<>>)})
    \/ retrieve_relevant_content(Queries, TopKs)
    \/ identify_content_gaps(GapQueries)
    \/ TakeResult

SpecQuery == InitQuery /\ [][NextQuery]_vars

\* SpecScore: the score of one section, over every content of up to MaxContentLen
\* characters and every query of up to MaxWords words
ContentAlphabet == {"a", "A", "b"}
ScoreTitles == {PyStr(<<"A", "a", "a">>)}
ScoreSources ==
    {Parsed(PyDict(<<[k |-> key, v |-> PyStr(c)]>>)) :
        key \in ScoreTitles, c \in SeqsUpTo(ContentAlphabet, MaxContentLen)}
ScoreWords == {<<"a", "a">>, aaa, <<"A", "a", "b">>}
ScoreQueries ==
    UNION {{PyStr(Join(<<" ">>, ws)), PyStr(<<" ">> \o Join(<<"\n", " ">>, ws) \o <<"\t">>)} :
              ws \in SeqsUpTo(ScoreWords, MaxWords)}

InitScore == Constructed(ScoreSources, {MaxTopK})

NextScore ==
    \/ Len(documents) < MaxScoreDocs /\ add_new_document({PyStr(<<"B", "a">>)}, {PyDict(<<>>)})
    \/ retrieve_relevant_content(ScoreQueries, {{}})
    \/ TakeResult

SpecScore == InitScore /\ [][NextScore]_vars

-----------------------------------------------------------------------------
(* Properties *)

Min(a, b) == IF a < b THEN a ELSE b

HasPrefix(t, p) == Len(t) >= Len(p) /\ SubSeq(t, 1, Len(p)) = p

\* no token of the query occurs in the content or the title of any document
NoTokenMatches(docs, query) ==
    \A i \in 1..Len(docs) :
        \A j \in 1..Len(Tokens(query)) :
            /\ ~Contains(Lower(OrEmpty(docs[i].content)), Tokens(query)[j])
            /\ ~Contains(Lower(OrEmpty(docs[i].title)), Tokens(query)[j])

FallbackItem(doc) == [content |-> doc.content, metadata |-> doc.metadata, similarity_score |-> 0]

\* C1 (as claimed): for every supplied top_k = k >= 0, a non-blank query none of whose
\* tokens occurs in any content or title gets exactly min(k, |documents|) items, the
\* first documents in stored order, each with score 0.
C1_FallbackLaw ==
    (/\ lastOp = "retrieve"
     /\ ~IsBlank(argQuery)
     /\ argTopK # {}
     /\ NoTokenMatches(documents, argQuery))
    => LET k == CHOOSE n \in argTopK : TRUE
       IN /\ Len(results) = Min(k, Len(documents))
          /\ \A i \in 1..Len(results) : results[i] = FallbackItem(documents[i])

\* C2 (as claimed): a refresh whose reload fails returns false and leaves the Document
\* Set empty; a refresh returns true only when the reload succeeded.
C2_RefreshFailure ==
    lastOp = "refresh" =>
        /\ LoadFails(source) => (retFlag = FALSE /\ documents = <<>>)
        /\ retFlag = TRUE => ~LoadFails(source)

\* C6 (as claimed): every document has non-null content, non-null metadata and a title.
C6_WellFormed ==
    \A i \in 1..Len(documents) :
        /\ documents[i].content # PyNone
        /\ documents[i].metadata # PyNone
        /\ "title" \in DOMAIN documents[i]

\* C5: a refresh against the unchanged source leaves the Document Set the constructor
\* produced; no document with a custom_ id survives a refresh; refreshing again
\* changes nothing.
C5_RefreshRebuilds ==
    lastOp = "refresh" =>
        /\ ~srcChanged => documents = initial
        /\ \A i \in 1..Len(documents) : ~HasPrefix(documents[i].id, CustomPrefix)
        /\ RefreshedDocuments(documents, source) = documents

\* a refresh against the unchanged source threw away an inserted document
C5_Witness ==
    /\ lastOp = "refresh"
    /\ ~srcChanged
    /\ documents # <<>>
    /\ Len(before) > Len(documents)
    /\ HasPrefix(before[Len(before)].id, CustomPrefix)

\* C7: ids are pairwise distinct; the document at position i carries yaml_<i-1> if it
\* was loaded and custom_<i-1> if it was inserted; loaded documents precede inserted ones.
C7_UniqueIds ==
    /\ \A i, j \in 1..Len(documents) : documents[i].id = documents[j].id => i = j
    /\ \A i \in 1..Len(documents) :
          \/ documents[i].id = YamlPrefix \o Decimal(i - 1)
          \/ documents[i].id = CustomPrefix \o Decimal(i - 1)
    /\ \A i, j \in 1..Len(documents) :
          (HasPrefix(documents[i].id, CustomPrefix) /\ HasPrefix(documents[j].id, YamlPrefix))
          => j < i

\* a loaded document and two inserted ones
C7_Witness ==
    /\ Len(documents) >= 3
    /\ HasPrefix(documents[1].id, YamlPrefix)
    /\ HasPrefix(documents[2].id, CustomPrefix)
    /\ HasPrefix(documents[3].id, CustomPrefix)

TitleKey == PyStr(<<"t", "i", "t", "l", "e">>)

\* C8: an insert that returns true appends exactly one document, with id custom_<n>
\* (n the count before the call) and title metadata.title or the id, and leaves the
\* documents stored before in place; one that returns false changes nothing.
C8_InsertEffect ==
    lastOp = "insert" =>
        IF retFlag
        THEN /\ Len(documents) = Len(before) + 1
             /\ SubSeq(documents, 1, Len(before)) = before
             /\ LET d == documents[Len(documents)]
                IN /\ d.id = CustomPrefix \o Decimal(Len(before))
                   /\ d.title = DictGet(d.metadata, TitleKey, PyStr(d.id))
        ELSE documents = before

\* an insert without a title succeeded on a non-empty Document Set
C8_Witness ==
    /\ lastOp = "insert"
    /\ retFlag
    /\ Len(before) >= 2
    /\ initial # <<>>
    /\ documents[Len(documents)].title = PyStr(documents[Len(documents)].id)

\* an insert failed on a non-empty Document Set
C8_WitnessFailed == lastOp = "insert" /\ ~retFlag /\ before # <<>>

\* the positions of the documents that score above 0 for the query
Matching(docs, query) == {i \in 1..Len(docs) : DocScore(docs[i], Tokens(query)) > 0}

\* 1 + the number of matching documents that come before document p in the ranking:
\* those with a higher score and those with the same score stored earlier
Rank(docs, query, p) ==
    1 + Cardinality({q \in Matching(docs, query) :
                        \/ DocScore(docs[q], Tokens(query)) > DocScore(docs[p], Tokens(query))
                        \/ /\ DocScore(docs[q], Tokens(query)) = DocScore(docs[p], Tokens(query))
                           /\ q < p})

\* C4: when some document scores above 0, the result is the first top_k (the value in
\* effect) of the matching documents ordered by score descending, documents of equal
\* score in their Document Set order.
C4_RankingStability ==
    (lastOp = "retrieve" /\ ~IsBlank(argQuery) /\ Matching(documents, argQuery) # {})
    => /\ Len(results) = Min(EffectiveTopK(argTopK, config),
                             Cardinality(Matching(documents, argQuery)))
       /\ Len(resultPos) = Len(results)
       /\ \A j \in 1..Len(results) :
             /\ resultPos[j] \in Matching(documents, argQuery)
             /\ Rank(documents, argQuery, resultPos[j]) = j
             /\ results[j].content = documents[resultPos[j]].content
             /\ results[j].metadata = documents[resultPos[j]].metadata
       /\ \A i, j \in 1..Len(results) :
             i < j => \/ results[i].similarity_score > results[j].similarity_score
                      \/ /\ results[i].similarity_score = results[j].similarity_score
                         /\ resultPos[i] < resultPos[j]

\* the second document outranks the first, the first and the third tie, and top_k = 2
\* cuts off the third
C4_Witness ==
    /\ lastOp = "retrieve"
    /\ ~IsBlank(argQuery)
    /\ Cardinality(Matching(documents, argQuery)) = 3
    /\ resultPos = <<2, 1>>
    /\ results[1].similarity_score > results[2].similarity_score
    /\ results[2].similarity_score = DocScore(documents[3], Tokens(argQuery))

\* the queries of recent_queries whose retrieval with top_k = 3 is empty or all zero
FlaggedAt(docs, recent_queries, cfg) ==
    {i \in 1..Len(recent_queries) :
        LET res == Retrieve(docs, recent_queries[i], {GapTopK}, cfg)
        IN res = <<>> \/ \A j \in 1..Len(res) : res[j].similarity_score = 0}

\* C9: identify_gaps lists exactly the queries whose retrieval with top_k = 3 is empty
\* or all zero, in order; a single query without any matching token gives gap_count 1
\* with that query listed; gap_count is the length of potential_gaps and at most
\* total_queries_analyzed; the Document Set is unchanged.
C9_GapDetection ==
    lastOp = "gaps" =>
        LET flagged == FlaggedAt(documents, argQueries, config)
        IN /\ Len(gaps.potential_gaps) = Cardinality(flagged)
           /\ \A j \in 1..Len(gaps.potential_gaps) :
                 \E i \in flagged :
                    /\ Cardinality({m \in flagged : m <= i}) = j
                    /\ gaps.potential_gaps[j].query = argQueries[i]
                    /\ gaps.potential_gaps[j].result_count
                          = Len(Retrieve(documents, argQueries[i], {GapTopK}, config))
           /\ gaps.gap_count = Len(gaps.potential_gaps)
           /\ gaps.total_queries_analyzed = Len(argQueries)
           /\ gaps.gap_count <= gaps.total_queries_analyzed
           /\ (Len(argQueries) = 1 /\ NoTokenMatches(documents, argQueries[1]))
              => (gaps.gap_count = 1 /\ gaps.potential_gaps[1].query = argQueries[1])
           /\ documents = before

\* of two queries the one that matches nothing is flagged, with the fallback's three
\* documents counted, and the one that matches is not
C9_Witness ==
    /\ lastOp = "gaps"
    /\ Len(argQueries) = 2
    /\ gaps.gap_count = 1
    /\ gaps.potential_gaps[1].query = argQueries[2]
    /\ ~IsBlank(argQueries[2])
    /\ gaps.potential_gaps[1].result_count = 3

\* two characters are the same letter, whatever their case
SameLetter(c, d) == c = d \/ {c, d} \in {{"a", "A"}, {"b", "B"}, {"n", "N"}}

\* the places of text s where word w of query q occurs, case-insensitively
Occurrences(s, q, w) ==
    {i \in 1..(Len(s) - (w[2] - w[1])) :
        \A j \in 0..(w[2] - w[1]) : SameLetter(s[i + j], q[w[1] + j])}

\* the whitespace-delimited words of q, each as <<first, last>>
QueryWords(q) ==
    {w \in (1..Len(q)) \X (1..Len(q)) :
        /\ w[1] <= w[2]
        /\ \A m \in w[1]..w[2] : ~IsSpace(q[m])
        /\ w[1] = 1 \/ IsSpace(q[w[1] - 1])
        /\ w[2] = Len(q) \/ IsSpace(q[w[2] + 1])}

\* the tokens: the words of length > 2
QueryTokens(q) == {w \in QueryWords(q) : w[2] - w[1] + 1 > 2}

\* the sum of the values of function f over the subset S of its domain
RECURSIVE SumOver(_, _)
SumOver(S, f) ==
    IF S = {} THEN 0 ELSE LET x == CHOOSE y \in S : TRUE IN f[x] + SumOver(S \ {x}, f)

Max(S) == CHOOSE n \in S : \A m \in S : m <= n

\* every occurrence of the word, overlapping ones included
AllOccurrences(s, q, w) == Cardinality(Occurrences(s, q, w))

\* the most occurrences of the word that do not overlap one another
DisjointOccurrences(s, q, w) ==
    Max({Cardinality(P) : P \in {O \in SUBSET Occurrences(s, q, w) :
                                    \A i, j \in O : i < j => j - i >= w[2] - w[1] + 1}})

TextOf(x) == IF x.type = "str" THEN x.s ELSE <<>>

ScoreAsClaimed(doc, q) ==
    SumOver(QueryTokens(q),
            [w \in QueryTokens(q) |->
                AllOccurrences(TextOf(doc.content), q, w)
                + (IF Occurrences(TextOf(doc.title), q, w) # {} THEN 2 ELSE 0)])

ScoreAmended(doc, q) ==
    SumOver(QueryTokens(q),
            [w \in QueryTokens(q) |->
                DisjointOccurrences(TextOf(doc.content), q, w)
                + (IF Occurrences(TextOf(doc.title), q, w) # {} THEN 2 ELSE 0)])

\* C3 (as claimed): when some document matches, every returned item's score is the sum
\* over the tokens of the number of case-insensitive occurrences of the token in the
\* content, plus 2 per token that occurs in the title, and no document with total 0 is
\* returned.
C3_ScoringAsClaimed ==
    (/\ lastOp = "retrieve"
     /\ ~IsBlank(argQuery)
     /\ \E i \in 1..Len(documents) : ScoreAsClaimed(documents[i], argQuery.s) > 0)
    => \A j \in 1..Len(results) :
          /\ results[j].similarity_score = ScoreAsClaimed(documents[resultPos[j]], argQuery.s)
          /\ ScoreAsClaimed(documents[resultPos[j]], argQuery.s) > 0

\* C3 (amended): the same with the occurrences in the content counted without overlap.
C3_Scoring ==
    (/\ lastOp = "retrieve"
     /\ ~IsBlank(argQuery)
     /\ \E i \in 1..Len(documents) : ScoreAmended(documents[i], argQuery.s) > 0)
    => /\ results # <<>>
       /\ \A j \in 1..Len(results) :
             /\ results[j].similarity_score = ScoreAmended(documents[resultPos[j]], argQuery.s)
             /\ ScoreAmended(documents[resultPos[j]], argQuery.s) > 0
             /\ results[j].content = documents[resultPos[j]].content

\* two tokens, a content with an occurrence in upper case, a title that matches, and a
\* document of score 0 left out
C3_Witness ==
    /\ lastOp = "retrieve"
    /\ Cardinality(QueryTokens(argQuery.s)) = 2
    /\ Len(documents) = 2
    /\ Len(results) = 1
    /\ results[1].similarity_score = 4
    /\ Tokens(argQuery)[1] # Tokens(argQuery)[2]
    /\ ContentScore(Lower(documents[resultPos[1]].content.s), Tokens(argQuery)) = 2
    /\ "A" \in {documents[resultPos[1]].content.s[i] :
                 i \in 1..Len(documents[resultPos[1]].content.s)}

\* the sequence and scalar nodes reachable from the node through mappings only
RECURSIVE LeafCount(_)
LeafCount(node) ==
    IF node.type = "dict"
    THEN SumSeq([i \in 1..Len(node.entries) |-> LeafCount(node.entries[i].v)])
    ELSE 1

Loaded == lastOp \in {"init", "refresh"} /\ source.kind = "ok"

\* C10 (as claimed): a root that is an empty mapping or an empty sequence yields zero
\* documents, and the number of documents is the number of sequence or scalar nodes
\* reachable from the root through mappings only.
C10_FlattenerAsClaimed ==
    Loaded =>
        /\ source.data \in {PyDict(<<>>), PyList(<<>>)} => documents = <<>>
        /\ Len(documents) = LeafCount(source.data)

\* C10 (amended): an empty mapping at the root yields zero documents; an empty sequence
\* at the root yields one document, titled "root", with empty content; the number of
\* documents is the number of sequence or scalar nodes reachable from the root through
\* mappings only.
C10_Flattener ==
    Loaded =>
        /\ source.data = PyDict(<<>>) => documents = <<>>
        /\ source.data = PyList(<<>>) =>
              /\ Len(documents) = 1
              /\ documents[1].title = PyStr(<<"r", "o", "o", "t">>)
              /\ documents[1].content = PyStr(<<>>)
        /\ Len(documents) = LeafCount(source.data)

\* a mapping inside a mapping, with a sequence and a scalar below
C10_Witness ==
    /\ Loaded
    /\ source.data.type = "dict"
    /\ Len(source.data.entries) = 2
    /\ source.data.entries[1].v.type = "dict"
    /\ source.data.entries[1].v.entries # <<>>
    /\ source.data.entries[2].v.type = "list"
    /\ Len(documents) = 2

\* the root is an empty sequence
C10_WitnessEmptySequence == Loaded /\ source.data = PyList(<<>>) /\ lastOp = "refresh"

====
